---- MODULE Spec2Model ----
(***************************************************************************)
(* Model of the button, switch and number platforms of the ocpp            *)
(* integration (custom_components/ocpp/button.py, switch.py, number.py).   *)
(*                                                                         *)
(* The three platforms fan a fixed descriptor list out over the connectors *)
(* of one charge point, and each entity turns a host interaction (press,   *)
(* turn on, turn off, set value) into a call on the central system.  The   *)
(* central system (availability, metrics, supported features, command      *)
(* dispatch) and the host (restore data, the DATA_UPDATED signal, the      *)
(* order of callbacks) are the environment.                                *)
(***************************************************************************)
EXTENDS Integers, Sequences, FiniteSets, TLC

VARIABLES
    no_of_connectors,  \* entry.data[CONF_NO_OF_CONNECTORS]
    cp_name,           \* entry.data[CONF_CONN_NAME]
    store,             \* the shape of hass.data[DOMAIN][entry.entry_id]
    setup_done,        \* platforms whose async_setup_entry has run
    buttons,           \* entities handed to async_add_devices by button.py
    switches,          \* entities handed to async_add_devices by switch.py
    numbers,           \* entities handed to async_add_devices by number.py
    subscribers,       \* callbacks connected to DATA_UPDATED, in order
    available,         \* central_system.get_available, by identity string
    metrics,           \* central_system.get_metric(.., status_connector)
    features,          \* central_system.get_supported_features(cp_id)
    pending,           \* handlers suspended at an await
    last,              \* what the most recent step did (observation only)
    nops               \* number of host callbacks delivered so far

vars == <<no_of_connectors, cp_name, store, setup_done, buttons, switches,
          numbers, subscribers, available, metrics, features, pending, last,
          nops>>

(***************************************************************************)
(* Bounds of the model.                                                    *)
(***************************************************************************)
\* largest connector count tried by the setup specification
MaxConn == 3
\* largest connector count of the running station
MaxLiveConn == 2
\* largest connector count of the station whose three kinds of instance
\* stand side by side
MaxStationConn == 1
\* events per behaviour: host callbacks (interactions, reads, additions,
\* broadcasts) and changes of the central system's state; the dispatcher's
\* answers to the handlers already started are not counted
MaxOps == 2

(***************************************************************************)
(* Python values.                                                          *)
(***************************************************************************)
\* Python's None where a string is expected
None == "<None>"

Digits == <<"0", "1", "2", "3", "4", "5", "6", "7", "8", "9">>

\* str(n) of a non-negative int
RECURSIVE str(_)
str(n) == IF n < 10 THEN Digits[n + 1]
          ELSE str(n \div 10) \o Digits[(n % 10) + 1]

\* sep.join(parts)
RECURSIVE join(_, _)
join(sep, parts) ==
    IF Len(parts) = 0 THEN ""
    ELSE IF Len(parts) = 1 THEN parts[1]
    ELSE parts[1] \o sep \o join(sep, Tail(parts))

\* list(range(lo, hi)): lo, lo+1, .., hi-1 (empty when hi <= lo)
range(lo, hi) == [k \in 1..(hi - lo) |-> lo + k - 1]

\* float(value): a number keeps its numeric value (16 == 16.0 in Python)
float(value) == value

\* concatenation of a sequence of sequences, in order
RECURSIVE flatten(_)
flatten(ss) == IF Len(ss) = 0 THEN <<>> ELSE Head(ss) \o flatten(Tail(ss))

(***************************************************************************)
(* Constants imported by the platforms.                                    *)
(***************************************************************************)
BUTTON_DOMAIN == "button"
SWITCH_DOMAIN == "switch"
NUMBER_DOMAIN == "number"
\* const.DOMAIN (DOMAIN is a reserved word of TLA+)
OCPP_DOMAIN == "ocpp"
DEFAULT_MAX_CURRENT == 32
DEFAULT_MAX_POWER == 22000
\* HAChargerStatuses.status_connector.value
status_connector == "Status.Connector"
\* Profiles.SMART
SMART == "SMART"

(***************************************************************************)
(* The descriptor lists.                                                   *)
(***************************************************************************)
BUTTONS == <<
    [key |-> "reset", name |-> "Reset", press_action |-> "service_reset"],
    [key |-> "unlock", name |-> "Unlock", press_action |-> "service_unlock"] >>

SWITCHES == <<
    [key |-> "charge_control", name |-> "Charge Control",
     on_action |-> "service_charge_start",
     off_action |-> "service_charge_stop",
     metric_state |-> status_connector,
     metric_condition |-> {"Charging", "SuspendedEVSE", "SuspendedEV"},
     default_state |-> FALSE],
    [key |-> "availability", name |-> "Availability",
     on_action |-> "service_availability",
     off_action |-> "service_availability",
     metric_state |-> status_connector,
     metric_condition |-> {"Available", "Preparing"},
     default_state |-> TRUE] >>

\* Descriptions other than the registered ones, covering the shapes the
\* OcppSwitchDescription dataclass allows with its defaults: no off_action,
\* no metric_state, either default_state.
GENERIC_SWITCHES == <<
    [key |-> "plain", name |-> "Plain",
     on_action |-> "service_a", off_action |-> None,
     metric_state |-> None, metric_condition |-> {},
     default_state |-> FALSE],
    [key |-> "plain_on", name |-> "Plain On",
     on_action |-> "service_a", off_action |-> None,
     metric_state |-> None, metric_condition |-> {},
     default_state |-> TRUE],
    [key |-> "toggle", name |-> "Toggle",
     on_action |-> "service_t", off_action |-> "service_t",
     metric_state |-> None, metric_condition |-> {},
     default_state |-> FALSE],
    [key |-> "backed", name |-> "Backed",
     on_action |-> "service_b", off_action |-> None,
     metric_state |-> status_connector, metric_condition |-> {"Charging"},
     default_state |-> FALSE] >>

NUMBERS == <<
    [key |-> "maximum_current", name |-> "Maximum Current",
     initial_value |-> DEFAULT_MAX_CURRENT,
     native_min_value |-> 0, native_max_value |-> DEFAULT_MAX_CURRENT,
     native_step |-> 1],
    [key |-> "maximum_power", name |-> "Maximum Power",
     initial_value |-> DEFAULT_MAX_POWER,
     native_min_value |-> 0, native_max_value |-> DEFAULT_MAX_POWER,
     native_step |-> 1] >>

(***************************************************************************)
(* Entity constructors.                                                    *)
(***************************************************************************)
ButtonUniqueId(cp_id, description, conn_id) ==
    join(".", <<BUTTON_DOMAIN, OCPP_DOMAIN, cp_id, str(conn_id), description.key>>)

ChargePointButton(cp_id, description, conn_id) ==
    [cp_id |-> cp_id,
     entity_description |-> description,
     conn_id |-> conn_id,
     unique_id |-> ButtonUniqueId(cp_id, description, conn_id),
     name |-> description.name \o " " \o str(conn_id)]

SwitchUniqueId(cp_id, description, conn_id) ==
    join(".", <<SWITCH_DOMAIN, OCPP_DOMAIN, cp_id, description.key, str(conn_id)>>)

ChargePointSwitch(cp_id, description, conn_id) ==
    [cp_id |-> cp_id,
     connector |-> cp_id \o "_" \o str(conn_id),
     entity_description |-> description,
     _state |-> description.default_state,
     conn_id |-> conn_id,
     unique_id |-> SwitchUniqueId(cp_id, description, conn_id),
     name |-> description.name \o " (Connector " \o str(conn_id) \o ")"]

\* (mutant) the connector is left out of a number's unique ID
Mutant_NumberUniqueId(cp_id, description, conn_id) ==
    join(".", <<NUMBER_DOMAIN, cp_id, description.key>>)

NumberUniqueId(cp_id, description, conn_id) ==
    join(".", <<NUMBER_DOMAIN, cp_id, description.key, str(conn_id)>>)

OcppNumber(cp_id, description, conn_id) ==
    [cp_id |-> cp_id,
     entity_description |-> description,
     conn_id |-> conn_id,
     unique_id |-> NumberUniqueId(cp_id, description, conn_id),
     name |-> description.name \o " (Connector " \o str(conn_id) \o ")",
     native_value |-> description.initial_value,
     should_poll |-> FALSE,
     attr_available |-> TRUE]

(***************************************************************************)
(* async_setup_entry of each platform: the list handed to                  *)
(* async_add_devices.                                                      *)
(***************************************************************************)
ButtonEntitiesFor(name, n, ent) ==
    IF ent.key = "unlock"
    THEN [k \in 1..Len(range(0, n + 1)) |->
            ChargePointButton(name, ent, range(0, n + 1)[k])]
    ELSE << ChargePointButton(name, ent, 0) >>

ButtonEntities(name, n) ==
    flatten([e \in 1..Len(BUTTONS) |-> ButtonEntitiesFor(name, n, BUTTONS[e])])

SwitchEntitiesFor(name, conn_id, descriptions) ==
    [e \in 1..Len(descriptions) |->
        ChargePointSwitch(name, descriptions[e], conn_id)]

\* (mutant) the switch setup loops over the descriptions first and over the
\* connectors second
Mutant_SwitchEntitiesOf(name, n, descriptions) ==
    flatten([e \in 1..Len(descriptions) |->
                [k \in 1..Len(range(1, n + 1)) |->
                    ChargePointSwitch(name, descriptions[e], range(1, n + 1)[k])]])

SwitchEntitiesOf(name, n, descriptions) ==
    flatten([k \in 1..Len(range(1, n + 1)) |->
                SwitchEntitiesFor(name, range(1, n + 1)[k], descriptions)])

SwitchEntities(name, n) == SwitchEntitiesOf(name, n, SWITCHES)

NumberEntitiesFor(name, conn_id) ==
    [e \in 1..Len(NUMBERS) |-> OcppNumber(name, NUMBERS[e], conn_id)]

NumberEntities(name, n) ==
    flatten([k \in 1..Len(range(1, n + 1)) |->
                NumberEntitiesFor(name, range(1, n + 1)[k])])

(***************************************************************************)
(* The environment: what the central system and the host may hold.         *)
(***************************************************************************)
\* charge point names tried by the setup specification
CpNames == {"charger", "cp.1"}
\* the name of the running station
LiveCpName == "charger"
\* values of the connector status metric (None: no such metric yet)
MetricValues == {None, "Charging", "Available", "Faulted"}
\* supported-feature sets reported by the charge point
FeatureSets == {{"CORE"}, {"CORE", SMART}}
\* values a user sets on a number
SetValues == {0, 16}
\* what async_get_last_number_data returns: nothing, or data holding a value
StoredData == {<<>>, <<10>>}

\* the identities the central system is asked about
Identities(name, n) == {name} \cup {name \o "_" \o str(c) : c \in 1..n}

\* hass.data[DOMAIN][entry.entry_id] is read by all three platforms; the
\* integration's __init__ that fills it is not part of these files.  It is
\* either a dict holding the central system under "central_sys" or the
\* central system itself.
StoreShapes == {"wrapped", "bare"}

\* hass.data[DOMAIN][entry.entry_id]["central_sys"], as button.py and
\* switch.py read it: the central system, or the TypeError of indexing an
\* object that is not a mapping
IndexedCentralSystem(st) ==
    IF st = "wrapped" THEN "central_system" ELSE "TypeError"

\* hass.data[DOMAIN][entry.entry_id], as number.py reads it
PlainCentralSystem(st) ==
    IF st = "wrapped" THEN "dict" ELSE "central_system"

\* central_system.id, read by every entity constructor for its device info:
\* a dict has no such attribute
HasId(central_system) == central_system = "central_system"

\* one step's observation record; again: the step before was the same
\* operation on the same entity; alone: no other handler of the entity was
\* in flight while this one was; reread: what the last read of the entity
\* stored while this handler was suspended
ObsOf(op, kind, idx, again) ==
    [op |-> op, kind |-> kind, idx |-> idx, calls |-> <<>>,
     outcome |-> "ok", pre |-> <<>>, resp |-> <<>>, avail |-> <<>>,
     value |-> <<>>, notified |-> <<>>, again |-> again, alone |-> TRUE,
     reread |-> <<>>]

Obs(op, kind, idx) ==
    ObsOf(op, kind, idx, last.op = op /\ last.kind = kind /\ last.idx = idx)

(***************************************************************************)
(* Station setup: the three platforms, in any order.                       *)
(***************************************************************************)
\* what a platform's async_setup_entry does: the entities it hands to
\* async_add_devices, or the exception that ends it before that call
ButtonSetupResult(st, name, n) ==
    IF IndexedCentralSystem(st) = "TypeError"
    THEN [outcome |-> "raised", entities |-> <<>>]
    ELSE IF Len(ButtonEntities(name, n)) > 0
            /\ ~HasId(IndexedCentralSystem(st))
    THEN [outcome |-> "raised", entities |-> <<>>]
    ELSE [outcome |-> "ok", entities |-> ButtonEntities(name, n)]

SwitchSetupResult(st, name, n) ==
    IF IndexedCentralSystem(st) = "TypeError"
    THEN [outcome |-> "raised", entities |-> <<>>]
    ELSE IF Len(SwitchEntities(name, n)) > 0
            /\ ~HasId(IndexedCentralSystem(st))
    THEN [outcome |-> "raised", entities |-> <<>>]
    ELSE [outcome |-> "ok", entities |-> SwitchEntities(name, n)]

\* the first OcppNumber constructed reads central_system.id
NumberSetupResult(st, name, n) ==
    IF Len(NumberEntities(name, n)) > 0 /\ ~HasId(PlainCentralSystem(st))
    THEN [outcome |-> "raised", entities |-> <<>>]
    ELSE [outcome |-> "ok", entities |-> NumberEntities(name, n)]

\* the platforms set up so far, after one more ended with result
DoneAfter(platform, result) ==
    IF result.outcome = "ok" THEN setup_done \cup {platform} ELSE setup_done

ButtonSetupEntry ==
    /\ "button" \notin setup_done
    /\ LET result == ButtonSetupResult(store, cp_name, no_of_connectors)
       IN  /\ buttons' = result.entities
           /\ setup_done' = DoneAfter("button", result)
           /\ last' = [Obs("setup", "button", 0) EXCEPT
                         !.outcome = result.outcome]
    /\ UNCHANGED <<no_of_connectors, cp_name, store, switches, numbers, subscribers,
                   available, metrics, features, pending, nops>>

SwitchSetupEntry ==
    /\ "switch" \notin setup_done
    /\ LET result == SwitchSetupResult(store, cp_name, no_of_connectors)
       IN  /\ switches' = result.entities
           /\ setup_done' = DoneAfter("switch", result)
           /\ last' = [Obs("setup", "switch", 0) EXCEPT
                         !.outcome = result.outcome]
    /\ UNCHANGED <<no_of_connectors, cp_name, store, buttons, numbers, subscribers,
                   available, metrics, features, pending, nops>>

NumberSetupEntry ==
    /\ "number" \notin setup_done
    /\ LET result == NumberSetupResult(store, cp_name, no_of_connectors)
       IN  /\ numbers' = result.entities
           /\ setup_done' = DoneAfter("number", result)
           /\ last' = [Obs("setup", "number", 0) EXCEPT
                         !.outcome = result.outcome]
    /\ UNCHANGED <<no_of_connectors, cp_name, store, buttons, switches, subscribers,
                   available, metrics, features, pending, nops>>

(***************************************************************************)
(* OcppNumber.async_added_to_hass: restore, then subscribe.                *)
(***************************************************************************)
\* (mutant) the restored data is not used
Mutant_RestoredValue(number, restored) == number.native_value

\* the native value after the restore step; restored is <<>> or <<data>>
RestoredValue(number, restored) ==
    IF restored # <<>> THEN restored[1] ELSE number.native_value

\* a call a handler awaits that is not a call on the central system
HostCall(fn) ==
    [fn |-> fn, target |-> None, service |-> None, state |-> "default",
     conn_id |-> <<>>, value |-> <<>>]

\* a handler suspended at its await of call; seq tells the handlers of one
\* entity apart (the first number no suspended handler of the entity has),
\* alone and reread are as in the observation record
Handler(kind, i, op, call, pre, num_value) ==
    [kind |-> kind, idx |-> i, op |-> op, call |-> call, pre |-> pre,
     num_value |-> num_value,
     seq |-> CHOOSE k \in 0..MaxOps :
                /\ \A p \in pending : ~(p.kind = kind /\ p.idx = i /\ p.seq = k)
                /\ \A j \in 0..(k - 1) :
                      \E p \in pending : p.kind = kind /\ p.idx = i /\ p.seq = j,
     alone |-> \A p \in pending : ~(p.kind = kind /\ p.idx = i),
     reread |-> <<>>]

\* the suspended handlers after a read of switch i stored value
Reread(i, value) ==
    {IF p.kind = "switch" /\ p.idx = i THEN [p EXCEPT !.reread = <<value>>]
     ELSE p : p \in pending}

\* the suspended handlers, those of entity (kind, i) knowing of another
Overlapped(kind, i) ==
    {IF p.kind = kind /\ p.idx = i THEN [p EXCEPT !.alone = FALSE] ELSE p :
        p \in pending}

\* async_added_to_hass when neither of the host's two awaited calls yields:
\* restore and connect in one step
AddedToHass(i, restored) ==
    /\ i \in 1..Len(numbers)
    /\ nops < MaxOps
    /\ numbers' = [numbers EXCEPT
                     ![i].native_value = RestoredValue(numbers[i], restored)]
    /\ subscribers' = Append(subscribers, i)
    /\ pending' = Overlapped("number", i)
    /\ last' = [Obs("added", "number", i) EXCEPT
                  !.pre = <<numbers[i].native_value>>, !.value = restored,
                  !.alone = \A p \in pending :
                               ~(p.kind = "number" /\ p.idx = i)]
    /\ nops' = nops + 1
    /\ UNCHANGED <<no_of_connectors, cp_name, store, setup_done, buttons, switches,
                   available, metrics, features>>

\* async_added_to_hass, up to its first await (super().async_added_to_hass)
AddedStart(i) ==
    /\ i \in 1..Len(numbers)
    /\ nops < MaxOps
    /\ pending' = Overlapped("number", i) \cup
            {Handler("number", i, "added", HostCall("async_added_to_hass"),
                     <<numbers[i].native_value>>, <<>>)}
    /\ last' = [Obs("added", "number", i) EXCEPT
                  !.calls = <<HostCall("async_added_to_hass")>>,
                  !.outcome = "pending",
                  !.pre = <<numbers[i].native_value>>]
    /\ nops' = nops + 1
    /\ UNCHANGED <<no_of_connectors, cp_name, store, setup_done, buttons, switches,
                   numbers, subscribers, available, metrics, features>>

\* the first await is over; the handler goes on to its second
\* (async_get_last_number_data)
AddedAwaitData(p) ==
    /\ p \in pending
    /\ p.op = "added"
    /\ p.call = HostCall("async_added_to_hass")
    /\ pending' = (pending \ {p}) \cup
            {[p EXCEPT !.call = HostCall("async_get_last_number_data")]}
    /\ last' = [Obs("added", "number", p.idx) EXCEPT
                  !.calls = <<HostCall("async_get_last_number_data")>>,
                  !.outcome = "pending",
                  !.pre = <<numbers[p.idx].native_value>>,
                  !.alone = p.alone, !.reread = p.reread]
    /\ UNCHANGED <<no_of_connectors, cp_name, store, setup_done, buttons, switches,
                   numbers, subscribers, available, metrics, features, nops>>

\* the second await returns the restore data: restore and connect, with no
\* await in between
AddedRestore(p, restored) ==
    /\ p \in pending
    /\ p.op = "added"
    /\ p.call = HostCall("async_get_last_number_data")
    /\ pending' = pending \ {p}
    /\ numbers' = [numbers EXCEPT ![p.idx].native_value =
                     RestoredValue(numbers[p.idx], restored)]
    /\ subscribers' = Append(subscribers, p.idx)
    /\ last' = [Obs("added", "number", p.idx) EXCEPT
                  !.pre = <<numbers[p.idx].native_value>>, !.value = restored,
                  !.alone = p.alone, !.reread = p.reread]
    /\ UNCHANGED <<no_of_connectors, cp_name, store, setup_done, buttons, switches,
                   available, metrics, features, nops>>

\* The charge point may or may not have booted when the platforms are set
\* up: it is available or not, with either feature set.  No connector has
\* reported yet.
EnvInit(name, n) ==
    /\ \E b \in BOOLEAN :
          available = [k \in Identities(name, n) |-> IF k = name THEN b ELSE FALSE]
    /\ metrics = [k \in Identities(name, n) |-> None]
    /\ features \in FeatureSets
    /\ pending = {}
    /\ subscribers = <<>>
    /\ nops = 0

InitSetup ==
    /\ no_of_connectors \in 0..MaxConn
    /\ cp_name \in CpNames
    /\ store \in StoreShapes
    /\ setup_done = {}
    /\ buttons = <<>>
    /\ switches = <<>>
    /\ numbers = <<>>
    /\ EnvInit(cp_name, no_of_connectors)
    \* no setup and no restore reads the central system's state: the charge
    \* point has not connected yet
    /\ ~available[cp_name]
    /\ features = {"CORE"}
    /\ last = ObsOf("init", "none", 0, FALSE)

NextSetup ==
    \/ ButtonSetupEntry
    \/ SwitchSetupEntry
    \/ NumberSetupEntry
    \/ \E i \in 1..Len(numbers), restored \in StoredData : AddedToHass(i, restored)
    \/ \E i \in 1..Len(numbers) : AddedStart(i)
    \/ \E p \in pending : AddedAwaitData(p)
    \/ \E p \in pending, restored \in StoredData : AddedRestore(p, restored)

SpecSetup == InitSetup /\ [][NextSetup]_vars

(***************************************************************************)
(* The running station: entity properties.                                 *)
(***************************************************************************)
\* central_system.get_available(identity)
get_available(identity) == available[identity]

\* central_system.get_metric(connector, measurand); only the connector
\* status is kept by the model, any other measurand is absent
get_metric(connector, measurand) ==
    IF measurand = status_connector /\ connector \in DOMAIN metrics
    THEN metrics[connector] ELSE None

\* ChargePointButton.available
ButtonAvailable(button) == get_available(button.cp_id)

\* ChargePointSwitch.available
SwitchAvailable(switch) == get_available(switch.connector)

\* OcppNumber.available: the attribute set by the constructor
NumberAvailable(number) == number.attr_available

\* (mutant) is_on reads the metric of the charge point, not of the connector
Mutant_is_on(switch) ==
    IF switch.entity_description.metric_state # None
    THEN get_metric(switch.cp_id, switch.entity_description.metric_state)
            \in switch.entity_description.metric_condition
    ELSE switch._state

\* (mutant) a metric outside the condition flips the stored state
Mutant_is_on_flip(switch) ==
    IF switch.entity_description.metric_state # None
    THEN IF get_metric(switch.connector, switch.entity_description.metric_state)
              \in switch.entity_description.metric_condition
         THEN TRUE ELSE ~switch._state
    ELSE switch._state

\* ChargePointSwitch.is_on: the value stored in _state and returned
is_on(switch) ==
    IF switch.entity_description.metric_state # None
    THEN get_metric(switch.connector, switch.entity_description.metric_state)
            \in switch.entity_description.metric_condition
    ELSE switch._state

(***************************************************************************)
(* Calls on the central system.                                            *)
(***************************************************************************)
\* set_charger_state as the handlers call it: the first two arguments, the
\* third positional argument (state: "default" when left out, else the
\* Python value as written, "False", "0", "1"), and conn_id (<<>> when left
\* out).  switch.py passes (connector, action, False, conn_id), so the third
\* position is the state and the fourth the connector.
ChargerStateCall(target, service, state, conn_id) ==
    [fn |-> "set_charger_state", target |-> target, service |-> service,
     state |-> state, conn_id |-> conn_id, value |-> <<>>]

\* set_max_charge_rate_amps / set_max_charge_rate_watts(cp_id, value, conn_id)
ChargeRateCall(fn, cp_id, value, conn_id) ==
    [fn |-> fn, target |-> cp_id, service |-> None,
     state |-> "default", conn_id |-> <<conn_id>>, value |-> <<value>>]

\* the call async_press awaits: conn_id is passed third, by position
PressCall(button) ==
    ChargerStateCall(button.cp_id, button.entity_description.press_action,
                     str(button.conn_id), <<>>)

\* the call async_turn_on awaits
TurnOnCall(switch) ==
    ChargerStateCall(switch.connector, switch.entity_description.on_action,
                     "default", <<switch.conn_id>>)

\* (mutant) async_turn_off does not test for a missing off_action
Mutant_TurnOffCalls(switch) ==
    IF switch.entity_description.off_action
                = switch.entity_description.on_action
    THEN << ChargerStateCall(switch.connector,
                switch.entity_description.off_action, "False", <<switch.conn_id>>) >>
    ELSE << ChargerStateCall(switch.connector,
                switch.entity_description.off_action, "default", <<switch.conn_id>>) >>

\* the calls async_turn_off makes: none, or the one it awaits
TurnOffCalls(switch) ==
    IF switch.entity_description.off_action = None THEN <<>>
    ELSE IF switch.entity_description.off_action
                = switch.entity_description.on_action
    THEN << ChargerStateCall(switch.connector,
                switch.entity_description.off_action, "False", <<switch.conn_id>>) >>
    ELSE << ChargerStateCall(switch.connector,
                switch.entity_description.off_action, "default", <<switch.conn_id>>) >>

\* _state after async_turn_on got resp
TurnOnState(switch, resp) == resp

\* (mutant) async_turn_off stores the response as it is
Mutant_TurnOffState(switch, resp) == resp

\* _state after async_turn_off got resp (resp = True when nothing was called)
TurnOffState(switch, resp) == ~resp

\* the condition under which async_set_native_value calls the setter
SetValueGate(number) ==
    /\ get_available(number.cp_id)
    /\ SMART \in features

\* the calls async_set_native_value makes when the gate is open
SetValueCalls(number, num_value) ==
    IF number.entity_description.key = "maximum_current"
    THEN << ChargeRateCall("set_max_charge_rate_amps", number.cp_id,
                           num_value, number.conn_id) >>
    ELSE IF number.entity_description.key = "maximum_power"
    THEN << ChargeRateCall("set_max_charge_rate_watts", number.cp_id,
                           num_value, number.conn_id) >>
    ELSE <<>>

\* (mutant) the value is stored whatever the setter returned
Mutant_SetValueResult(number, num_value, resp) == num_value

\* _attr_native_value after the setter returned resp
SetValueResult(number, num_value, resp) ==
    IF resp = TRUE THEN num_value ELSE number.native_value

(***************************************************************************)
(* Host interactions.  A handler runs up to its await of the central       *)
(* system in one step and is resumed by the dispatcher's answer in         *)
(* another; a handler that awaits nothing completes in one step.  No       *)
(* handler tests whether another one of its entity is in flight.           *)
(***************************************************************************)
\* ChargePointButton.async_press, up to the await
Press(i) ==
    /\ i \in 1..Len(buttons)
    /\ nops < MaxOps
    /\ pending' = Overlapped("button", i) \cup
            {Handler("button", i, "press", PressCall(buttons[i]), <<>>, <<>>)}
    /\ last' = [Obs("press", "button", i) EXCEPT
                  !.calls = <<PressCall(buttons[i])>>,
                  !.outcome = "pending",
                  !.avail = <<ButtonAvailable(buttons[i])>>]
    /\ nops' = nops + 1
    /\ UNCHANGED <<no_of_connectors, cp_name, store, setup_done, buttons, switches,
                   numbers, subscribers, available, metrics, features>>

\* ChargePointSwitch.async_turn_on, up to the await
TurnOn(i) ==
    /\ i \in 1..Len(switches)
    /\ nops < MaxOps
    /\ pending' = Overlapped("switch", i) \cup
            {Handler("switch", i, "turn_on", TurnOnCall(switches[i]),
                     <<switches[i]._state>>, <<>>)}
    /\ last' = [Obs("turn_on", "switch", i) EXCEPT
                  !.calls = <<TurnOnCall(switches[i])>>,
                  !.outcome = "pending",
                  !.pre = <<switches[i]._state>>,
                  !.avail = <<SwitchAvailable(switches[i])>>]
    /\ nops' = nops + 1
    /\ UNCHANGED <<no_of_connectors, cp_name, store, setup_done, buttons, switches,
                   numbers, subscribers, available, metrics, features>>

\* ChargePointSwitch.async_turn_off: to the end when no off_action is set,
\* else up to the await
TurnOff(i) ==
    /\ i \in 1..Len(switches)
    /\ nops < MaxOps
    /\ LET calls == TurnOffCalls(switches[i])
           obs == [Obs("turn_off", "switch", i) EXCEPT
                     !.calls = calls,
                     !.alone = \A p \in pending :
                                  ~(p.kind = "switch" /\ p.idx = i),
                     !.pre = <<switches[i]._state>>,
                     !.avail = <<SwitchAvailable(switches[i])>>]
       IN  IF calls = <<>>
           THEN /\ switches' = [switches EXCEPT
                                  ![i]._state = TurnOffState(switches[i], TRUE)]
                /\ pending' = Overlapped("switch", i)
                /\ last' = obs
           ELSE /\ switches' = switches
                /\ pending' = Overlapped("switch", i) \cup
                      {Handler("switch", i, "turn_off", calls[1],
                               <<switches[i]._state>>, <<>>)}
                /\ last' = [obs EXCEPT !.outcome = "pending"]
    /\ nops' = nops + 1
    /\ UNCHANGED <<no_of_connectors, cp_name, store, setup_done, buttons, numbers,
                   subscribers, available, metrics, features>>

\* OcppNumber.async_set_native_value: to the end when the gate is closed,
\* else up to the await; with the gate open and a key that is neither of
\* the two tested, no setter is called and reading resp raises
\* UnboundLocalError
SetNativeValue(i, value) ==
    /\ i \in 1..Len(numbers)
    /\ nops < MaxOps
    /\ LET num_value == float(value)
           calls == IF SetValueGate(numbers[i])
                    THEN SetValueCalls(numbers[i], num_value) ELSE <<>>
           obs == [Obs("set_value", "number", i) EXCEPT
                     !.calls = calls,
                     !.pre = <<numbers[i].native_value>>,
                     !.avail = <<NumberAvailable(numbers[i])>>,
                     !.value = <<num_value>>,
                     !.alone = \A p \in pending :
                                  ~(p.kind = "number" /\ p.idx = i)]
       IN  IF calls = <<>>
           THEN /\ pending' = Overlapped("number", i)
                /\ last' = [obs EXCEPT !.outcome =
                              IF SetValueGate(numbers[i])
                              THEN "raised" ELSE "ok"]
           ELSE /\ pending' = Overlapped("number", i) \cup
                      {Handler("number", i, "set_value", calls[1],
                               <<numbers[i].native_value>>, <<num_value>>)}
                /\ last' = [obs EXCEPT !.outcome = "pending"]
    /\ nops' = nops + 1
    /\ UNCHANGED <<no_of_connectors, cp_name, store, setup_done, buttons, switches,
                   numbers, subscribers, available, metrics, features>>

\* (mutant) the state is kept per description, shared by the connectors
Mutant_SwitchesAfter(p, resp) ==
    IF p.kind # "switch" THEN switches
    ELSE [j \in 1..Len(switches) |->
            IF switches[j].entity_description.key
                  = switches[p.idx].entity_description.key
            THEN [switches[j] EXCEPT !._state =
                    IF p.op = "turn_on" THEN TurnOnState(switches[p.idx], resp)
                    ELSE TurnOffState(switches[p.idx], resp)]
            ELSE switches[j]]

\* the entity lists after handler p is resumed with resp
SwitchesAfter(p, resp) ==
    IF p.kind # "switch" THEN switches
    ELSE [switches EXCEPT ![p.idx]._state =
            IF p.op = "turn_on" THEN TurnOnState(switches[p.idx], resp)
            ELSE TurnOffState(switches[p.idx], resp)]

NumbersAfter(p, resp) ==
    IF p.kind # "number" THEN numbers
    ELSE [numbers EXCEPT ![p.idx].native_value =
            SetValueResult(numbers[p.idx], p.num_value[1], resp)]

\* the awaited call returns resp and the handler runs to its end
DispatchReturn(p, resp) ==
    /\ p \in pending
    /\ p.op # "added"
    /\ pending' = pending \ {p}
    /\ switches' = SwitchesAfter(p, resp)
    /\ numbers' = NumbersAfter(p, resp)
    /\ last' = [Obs(p.op, p.kind, p.idx) EXCEPT
                  !.pre = p.pre, !.resp = <<resp>>, !.value = p.num_value,
                  !.alone = p.alone, !.reread = p.reread]
    /\ UNCHANGED <<no_of_connectors, cp_name, store, setup_done, buttons,
                   subscribers, available, metrics, features, nops>>

\* (mutant) the handler stored an optimistic value before it awaited, and
\* the value stays when the call raises
Mutant_DispatchRaise(p) ==
    /\ p \in pending
    /\ p.op # "added"
    /\ pending' = pending \ {p}
    /\ switches' = SwitchesAfter(p, TRUE)
    /\ numbers' = NumbersAfter(p, TRUE)
    /\ last' = [Obs(p.op, p.kind, p.idx) EXCEPT
                  !.pre = p.pre, !.outcome = "raised", !.value = p.num_value,
                  !.alone = p.alone, !.reread = p.reread]
    /\ UNCHANGED <<no_of_connectors, cp_name, store, setup_done, buttons,
                   subscribers, available, metrics, features, nops>>

\* the awaited call raises (an error, a timeout): the handler is left at
\* the await and the exception goes to the host
DispatchRaise(p) ==
    /\ p \in pending
    /\ p.op # "added"
    /\ pending' = pending \ {p}
    /\ last' = [Obs(p.op, p.kind, p.idx) EXCEPT
                  !.pre = p.pre, !.outcome = "raised", !.value = p.num_value,
                  !.alone = p.alone, !.reread = p.reread]
    /\ UNCHANGED <<no_of_connectors, cp_name, store, setup_done, buttons, switches,
                   numbers, subscribers, available, metrics, features, nops>>

\* the step before was a first read of switch i
JustRead(i) ==
    last.op = "is_on" /\ last.kind = "switch" /\ last.idx = i /\ ~last.again

\* the host reads ChargePointSwitch.is_on; a read may always be repeated once
IsOn(i) ==
    /\ i \in 1..Len(switches)
    /\ nops < MaxOps \/ JustRead(i)
    /\ switches' = [switches EXCEPT ![i]._state = is_on(switches[i])]
    /\ last' = [Obs("is_on", "switch", i) EXCEPT
                  !.pre = <<switches[i]._state>>,
                  !.value = <<is_on(switches[i])>>]
    /\ pending' = Reread(i, is_on(switches[i]))
    /\ nops' = IF nops < MaxOps THEN nops + 1 ELSE nops
    /\ UNCHANGED <<no_of_connectors, cp_name, store, setup_done, buttons, numbers,
                   subscribers, available, metrics, features>>

\* (mutant) the state update re-derives the value of every connected number
Mutant_DataUpdated ==
    /\ nops < MaxOps
    /\ numbers' = [j \in 1..Len(numbers) |->
                     IF \E k \in 1..Len(subscribers) : subscribers[k] = j
                     THEN [numbers[j] EXCEPT !.native_value =
                              numbers[j].entity_description.initial_value]
                     ELSE numbers[j]]
    /\ last' = [Obs("data_updated", "none", 0) EXCEPT
                  !.notified = [k \in 1..Len(subscribers) |->
                                  <<"number", subscribers[k]>>]]
    /\ nops' = nops + 1
    /\ UNCHANGED <<no_of_connectors, cp_name, store, setup_done, buttons, switches,
                   subscribers, available, metrics, features, pending>>

\* the DATA_UPDATED signal: every connected callback schedules a state
\* update of its number, which reads _attr_native_value and changes nothing
DataUpdated ==
    /\ nops < MaxOps
    /\ last' = [Obs("data_updated", "none", 0) EXCEPT
                  !.notified = [k \in 1..Len(subscribers) |->
                                  <<"number", subscribers[k]>>]]
    /\ nops' = nops + 1
    /\ UNCHANGED <<no_of_connectors, cp_name, store, setup_done, buttons, switches,
                   numbers, subscribers, available, metrics, features, pending>>

(***************************************************************************)
(* The central system changes under the entities: the availability of the *)
(* station or of a connector, a connector's status, the supported         *)
(* features.                                                               *)
(***************************************************************************)
SetAvailable(identity, b) ==
    /\ identity \in DOMAIN available
    /\ available[identity] # b
    /\ available' = [available EXCEPT ![identity] = b]
    /\ nops < MaxOps
    /\ last' = Obs("env", "none", 0)
    /\ nops' = nops + 1
    /\ UNCHANGED <<no_of_connectors, cp_name, store, setup_done, buttons, switches,
                   numbers, subscribers, metrics, features, pending>>

SetMetric(connector, v) ==
    /\ connector \in DOMAIN metrics
    /\ metrics[connector] # v
    /\ metrics' = [metrics EXCEPT ![connector] = v]
    /\ nops < MaxOps
    /\ last' = Obs("env", "none", 0)
    /\ nops' = nops + 1
    /\ UNCHANGED <<no_of_connectors, cp_name, store, setup_done, buttons, switches,
                   numbers, subscribers, available, features, pending>>

SetFeatures(f) ==
    /\ features # f
    /\ features' = f
    /\ nops < MaxOps
    /\ last' = Obs("env", "none", 0)
    /\ nops' = nops + 1
    /\ UNCHANGED <<no_of_connectors, cp_name, store, setup_done, buttons, switches,
                   numbers, subscribers, available, metrics, pending>>

(***************************************************************************)
(* The running station, from the state the three setups leave.             *)
(***************************************************************************)
Init ==
    /\ no_of_connectors \in 1..MaxLiveConn
    /\ cp_name = LiveCpName
    /\ store \in StoreShapes
    /\ buttons = ButtonSetupResult(store, cp_name, no_of_connectors).entities
    /\ switches = SwitchSetupResult(store, cp_name, no_of_connectors).entities
    /\ numbers = NumberSetupResult(store, cp_name, no_of_connectors).entities
    /\ setup_done =
          {k \in {"button"} :
              ButtonSetupResult(store, cp_name, no_of_connectors).outcome = "ok"}
          \cup {k \in {"switch"} :
              SwitchSetupResult(store, cp_name, no_of_connectors).outcome = "ok"}
          \cup {k \in {"number"} :
              NumberSetupResult(store, cp_name, no_of_connectors).outcome = "ok"}
    /\ EnvInit(cp_name, no_of_connectors)
    /\ last = ObsOf("init", "none", 0, FALSE)

Next ==
    \/ \E i \in 1..Len(numbers), restored \in StoredData : AddedToHass(i, restored)
    \/ \E i \in 1..Len(numbers) : AddedStart(i)
    \/ \E p \in pending : AddedAwaitData(p)
    \/ \E p \in pending, restored \in StoredData : AddedRestore(p, restored)
    \/ \E i \in 1..Len(buttons) : Press(i)
    \/ \E i \in 1..Len(switches) : TurnOn(i)
    \/ \E i \in 1..Len(switches) : TurnOff(i)
    \/ \E i \in 1..Len(numbers), v \in SetValues : SetNativeValue(i, v)
    \/ \E p \in pending, resp \in BOOLEAN : DispatchReturn(p, resp)
    \/ \E p \in pending : DispatchRaise(p)
    \/ \E i \in 1..Len(switches) : IsOn(i)
    \/ DataUpdated
    \/ \E k \in DOMAIN available, b \in BOOLEAN : SetAvailable(k, b)
    \/ \E k \in DOMAIN metrics, v \in MetricValues : SetMetric(k, v)
    \/ \E f \in FeatureSets : SetFeatures(f)

Spec == Init /\ [][Next]_vars

(***************************************************************************)
(* The switch class on its own, over the generic descriptions.             *)
(***************************************************************************)
InitClass ==
    /\ no_of_connectors \in 1..MaxLiveConn
    /\ cp_name = LiveCpName
    /\ store = "wrapped"
    /\ setup_done = {"switch"}
    /\ buttons = <<>>
    /\ switches = SwitchEntitiesOf(cp_name, no_of_connectors, GENERIC_SWITCHES)
    /\ numbers = <<>>
    /\ EnvInit(cp_name, no_of_connectors)
    /\ last = ObsOf("init", "none", 0, FALSE)

NextClass ==
    \/ \E i \in 1..Len(switches) : TurnOn(i)
    \/ \E i \in 1..Len(switches) : TurnOff(i)
    \/ \E p \in pending, resp \in BOOLEAN : DispatchReturn(p, resp)
    \/ \E p \in pending : DispatchRaise(p)
    \/ \E i \in 1..Len(switches) : IsOn(i)
    \/ \E k \in DOMAIN available, b \in BOOLEAN : SetAvailable(k, b)
    \/ \E k \in DOMAIN metrics, v \in MetricValues : SetMetric(k, v)

SpecClass == InitClass /\ [][NextClass]_vars

(***************************************************************************)
(* The instances of the three classes side by side, as their constructors  *)
(* make them for one central system.                                       *)
(***************************************************************************)
InitStation ==
    /\ no_of_connectors \in 1..MaxStationConn
    /\ cp_name = LiveCpName
    /\ store = "wrapped"
    /\ setup_done = {}
    /\ buttons = ButtonEntities(cp_name, no_of_connectors)
    /\ switches = SwitchEntities(cp_name, no_of_connectors)
    /\ numbers = NumberEntities(cp_name, no_of_connectors)
    /\ EnvInit(cp_name, no_of_connectors)
    /\ last = ObsOf("init", "none", 0, FALSE)

SpecStation == InitStation /\ [][Next]_vars

(***************************************************************************)
(* Properties.                                                             *)
(***************************************************************************)
\* positions of the entities of a list made from the description `key`
InstancesOf(entities, key) ==
    {i \in 1..Len(entities) : entities[i].entity_description.key = key}

\* exactly one entity of description `key` at each connector of conns, and
\* none anywhere else
OnePerConnector(entities, key, conns) ==
    /\ Cardinality(InstancesOf(entities, key)) = Cardinality(conns)
    /\ \A c \in conns :
          Cardinality({i \in InstancesOf(entities, key) :
                          entities[i].conn_id = c}) = 1

\* C1 (as claimed): for a connector count N >= 1, the setup of each
\* platform yields its entities: exactly one "reset" button, at connector
\* 0; exactly N+1 "unlock" buttons, one at each of 0..N; and for every
\* switch and number description exactly N entities, one at each of 1..N
\* and none at 0.
C1_FanOutCounts ==
    (no_of_connectors >= 1 /\ last.op = "setup") =>
        /\ last.kind = "button" =>
              /\ OnePerConnector(buttons, "reset", {0})
              /\ OnePerConnector(buttons, "unlock", 0..no_of_connectors)
              /\ Len(buttons) = no_of_connectors + 2
        /\ last.kind = "switch" =>
              /\ \A e \in 1..Len(SWITCHES) :
                    OnePerConnector(switches, SWITCHES[e].key, 1..no_of_connectors)
              /\ Len(switches) = Len(SWITCHES) * no_of_connectors
        /\ last.kind = "number" =>
              /\ \A e \in 1..Len(NUMBERS) :
                    OnePerConnector(numbers, NUMBERS[e].key, 1..no_of_connectors)
              /\ Len(numbers) = Len(NUMBERS) * no_of_connectors

\* the unique IDs of every entity of the station, platform by platform
AllUniqueIds ==
    [i \in 1..Len(buttons) |-> buttons[i].unique_id]
        \o [i \in 1..Len(switches) |-> switches[i].unique_id]
        \o [i \in 1..Len(numbers) |-> numbers[i].unique_id]

\* the unique IDs the three constructors give for this entry, whichever
\* platforms got as far as constructing
ConstructedUniqueIds ==
    LET bs == ButtonEntities(cp_name, no_of_connectors)
        ss == SwitchEntities(cp_name, no_of_connectors)
        ns == NumberEntities(cp_name, no_of_connectors)
    IN  [i \in 1..Len(bs) |-> bs[i].unique_id]
        \o [i \in 1..Len(ss) |-> ss[i].unique_id]
        \o [i \in 1..Len(ns) |-> ns[i].unique_id]

\* C2: the unique IDs of all entities created for one station by the three
\* platforms are pairwise distinct, within a platform and across them.
C2_UniqueIdentities ==
    LET made == AllUniqueIds
        all == ConstructedUniqueIds
    IN  /\ \A i, j \in 1..Len(made) : i # j => made[i] # made[j]
        /\ \A i, j \in 1..Len(all) : i # j => all[i] # all[j]

\* C2 witness: the button and the switch platform have registered their
\* entities for at least two connectors, 3 * N + 2 entities in all.
C2_Witness ==
    /\ {"button", "switch"} \subseteq setup_done
    /\ no_of_connectors >= 2
    /\ Len(AllUniqueIds) = 3 * no_of_connectors + 2

IsInteraction == last.op \in {"press", "turn_on", "turn_off", "set_value"}

\* C3 (as claimed): an interaction delivered while the entity's
\* availability query answers false reports an Unavailable failure and
\* calls nothing on the central system.
C3_UnavailableShortCircuits ==
    (IsInteraction /\ last.avail = <<FALSE>>) =>
        /\ last.calls = <<>>
        /\ last.outcome = "Unavailable"

\* C4 (as claimed): a turn-on or turn-off whose dispatch returned false
\* leaves _state at the value it had when the interaction began.
C4_FailedToggleKeepsState ==
    (last.kind = "switch" /\ last.op \in {"turn_on", "turn_off"}
        /\ last.resp = <<FALSE>> /\ last.alone) =>
        switches[last.idx]._state = last.pre[1]

\* C5: for a switch whose off_action equals its on_action, a turn-off whose
\* dispatch returned true leaves _state false, and one whose dispatch
\* returned false leaves _state true.
C5_TurnOffNegatesResponse ==
    (last.op = "turn_off" /\ last.resp # <<>>
        /\ switches[last.idx].entity_description.off_action
             = switches[last.idx].entity_description.on_action) =>
        /\ last.resp = <<TRUE>> => switches[last.idx]._state = FALSE
        /\ last.resp = <<FALSE>> => switches[last.idx]._state = TRUE

\* C5 witness: the availability switch was turned off from off, the
\* dispatch returned false, and the switch is now on.
C5_Witness ==
    /\ last.op = "turn_off"
    /\ last.resp = <<FALSE>>
    /\ last.pre = <<FALSE>>
    /\ switches[last.idx].entity_description.key = "availability"
    /\ switches[last.idx]._state = TRUE

\* C6: for a switch without off_action a turn-off completes at once and
\* normally, calls nothing on the central system and leaves _state false.
C6_TurnOffWithoutAction ==
    (last.op = "turn_off"
        /\ switches[last.idx].entity_description.off_action = None) =>
        /\ last.outcome = "ok"
        /\ last.calls = <<>>
        /\ \A p \in pending : ~(p.op = "turn_off" /\ p.idx = last.idx)
        /\ switches[last.idx]._state = FALSE

\* C6 witness: a switch without off_action that was on has been turned off.
C6_Witness ==
    /\ last.op = "turn_off"
    /\ switches[last.idx].entity_description.off_action = None
    /\ last.pre = <<TRUE>>
    /\ switches[last.idx]._state = FALSE

\* C7: reading a metric-backed switch yields true iff the connector status
\* of the switch's own connector is one of its matching values, false for
\* any other value and for an absent metric, whatever _state was before.
C7_ReadFollowsMetric ==
    (last.op = "is_on"
        /\ switches[last.idx].entity_description.metric_state # None) =>
        LET sw == switches[last.idx]
            matches == metrics[sw.cp_id \o "_" \o str(sw.conn_id)]
                          \in sw.entity_description.metric_condition
        IN  /\ last.value = <<matches>>
            /\ sw._state = matches

\* C7 witness: a charge control switch whose _state was true (set by a
\* dispatcher response or an earlier read) is read while its connector's
\* status does not match, and reads false; scenario 1's second connector.
C7_Witness ==
    /\ last.op = "is_on"
    /\ switches[last.idx].entity_description.key = "charge_control"
    /\ switches[last.idx].conn_id = 2
    /\ last.pre = <<TRUE>>
    /\ last.value = <<FALSE>>

\* the station is unavailable or does not support smart charging
GateClosed == ~available[cp_name] \/ SMART \notin features

\* C8 (as claimed): a set-value made while the station is unavailable or
\* lacks smart charging is rejected with CapabilityUnavailable, calls no
\* setter and leaves the value unchanged.
C8_GateRejects ==
    (last.op = "set_value" /\ last.resp = <<>> /\ last.outcome # "raised"
        /\ GateClosed) =>
        /\ last.outcome = "CapabilityUnavailable"
        /\ last.calls = <<>>
        /\ numbers[last.idx].native_value = last.pre[1]

\* C9: when the setter was called (station available, smart charging
\* supported), the value becomes the one asked for if the setter returned
\* true and, the number's handlers being run one at a time, stays what it
\* was when the interaction began if the setter returned false.
C9_SetValueFollowsResponse ==
    (last.op = "set_value" /\ last.resp # <<>>) =>
        /\ last.resp = <<TRUE>> =>
              numbers[last.idx].native_value = last.value[1]
        /\ (last.resp = <<FALSE>> /\ last.alone) =>
              numbers[last.idx].native_value = last.pre[1]

\* C9 witness: a set-value of 16 on a maximum current number holding
\* another value was answered true, and the number holds 16.
C9_Witness ==
    /\ last.op = "set_value"
    /\ last.resp = <<TRUE>>
    /\ last.value = <<16>>
    /\ last.pre # <<16>>
    /\ numbers[last.idx].entity_description.key = "maximum_current"
    /\ numbers[last.idx].native_value = 16

\* how many times number i has been connected to the signal
TimesAdded(i) ==
    Cardinality({k \in 1..Len(subscribers) : subscribers[k] = i})

\* C10: when async_added_to_hass of a number has run to its end, the value
\* is the restored value if the host held data for it; if it held none the
\* value is left as it was, which for a number added for the first time is
\* the description's initial value.
C10_RestoreOnAdd ==
    (last.op = "added" /\ last.outcome = "ok") =>
        /\ last.value # <<>> => numbers[last.idx].native_value = last.value[1]
        /\ last.value = <<>> => numbers[last.idx].native_value = last.pre[1]
        /\ (last.value = <<>> /\ TimesAdded(last.idx) = 1) =>
              numbers[last.idx].native_value
                 = numbers[last.idx].entity_description.initial_value

\* C10 witness: a number was added with restored data 10 and holds 10, not
\* its initial value.
C10_Witness ==
    /\ last.op = "added"
    /\ last.outcome = "ok"
    /\ last.value = <<10>>
    /\ numbers[last.idx].native_value = 10
    /\ numbers[last.idx].entity_description.initial_value # 10

\* the most recent step ended an interaction that did not do what was asked:
\* the entity was unavailable, the number's gate was closed, the dispatcher
\* returned false, or the dispatcher raised
InteractionFailed ==
    /\ IsInteraction
    /\ last.outcome # "pending"
    /\ \/ last.avail = <<FALSE>>
       \/ last.op = "set_value" /\ last.calls = <<>> /\ last.resp = <<>>
            /\ last.outcome # "raised"
       \/ last.resp = <<FALSE>>
       \/ last.outcome = "raised"

\* C11 (as claimed): every interaction that fails ends with a failure
\* reported to the caller; none completes as if it had succeeded.
C11_FailuresAreReported ==
    InteractionFailed => last.outcome # "ok"

\* the connector status of a switch's own connector is one of its matching
\* values
MetricMatches(switch) ==
    metrics[switch.cp_id \o "_" \o str(switch.conn_id)]
        \in switch.entity_description.metric_condition

\* C12 (as claimed): the DATA_UPDATED broadcast reaches every switch and
\* every number added to the host, and after it the _state of every
\* metric-backed switch is what the metric store says, without a read.
C12_BroadcastReevaluatesAll ==
    last.op = "data_updated" =>
        /\ \A i \in 1..Len(switches) :
              \E m \in 1..Len(last.notified) : last.notified[m] = <<"switch", i>>
        /\ \A k \in 1..Len(subscribers) :
              \E m \in 1..Len(last.notified) :
                  last.notified[m] = <<"number", subscribers[k]>>
        /\ \A i \in 1..Len(switches) :
              switches[i].entity_description.metric_state # None =>
                  switches[i]._state = MetricMatches(switches[i])

\* position of the description `key` in a descriptor list
DescIndex(descriptions, key) ==
    CHOOSE e \in 1..Len(descriptions) : descriptions[e].key = key

\* the list runs through the descriptions in declaration order and, within
\* a description, through the connectors in ascending order
DescriptorMajor(entities, descriptions) ==
    \A i, j \in 1..Len(entities) :
        i < j =>
            LET di == DescIndex(descriptions, entities[i].entity_description.key)
                dj == DescIndex(descriptions, entities[j].entity_description.key)
            IN  \/ di < dj
                \/ di = dj /\ entities[i].conn_id < entities[j].conn_id

\* the list runs through the connectors in ascending order and, within a
\* connector, through the descriptions in declaration order
ConnectorMajor(entities, descriptions) ==
    \A i, j \in 1..Len(entities) :
        i < j =>
            LET di == DescIndex(descriptions, entities[i].entity_description.key)
                dj == DescIndex(descriptions, entities[j].entity_description.key)
            IN  \/ entities[i].conn_id < entities[j].conn_id
                \/ entities[i].conn_id = entities[j].conn_id /\ di < dj

\* C13 (as claimed): the list each platform registers is ordered by
\* description first and by ascending connector second.
C13_DescriptorMajorOrder ==
    /\ DescriptorMajor(buttons, BUTTONS)
    /\ DescriptorMajor(switches, SWITCHES)
    /\ DescriptorMajor(numbers, NUMBERS)

\* C13 (amended): the button list is ordered by description first and by
\* ascending connector second; the switch and number lists are ordered by
\* ascending connector first and by description second.
C13_SetupOrder ==
    /\ DescriptorMajor(buttons, BUTTONS)
    /\ ConnectorMajor(switches, SWITCHES)
    /\ ConnectorMajor(numbers, NUMBERS)

\* C13 witness: with two or more connectors set up, the availability switch
\* of connector 1 comes before the charge control switch of connector 2,
\* and the unlock button of connector 2 after the reset button.
C13_Witness ==
    /\ {"button", "switch"} \subseteq setup_done
    /\ no_of_connectors >= 2
    /\ switches[2].entity_description.key = "availability"
    /\ switches[2].conn_id = 1
    /\ switches[3].entity_description.key = "charge_control"
    /\ switches[3].conn_id = 2
    /\ buttons[1].entity_description.key = "reset"
    /\ buttons[4].conn_id = 2

\* C14 (as claimed): with a connector count below 1 the setup of a platform
\* fails with a ConfigurationError and registers nothing.
C14_SetupRejectsNoConnectors ==
    (no_of_connectors < 1 /\ last.op = "setup") =>
        /\ last.outcome = "ConfigurationError"
        /\ last.kind \notin setup_done

\* the identity of an entity's own connector
OwnConnector(entity) == entity.cp_id \o "_" \o str(entity.conn_id)

\* C15 (as claimed): at an interaction a button's availability is that of
\* the station, a switch's that of its own connector, and a number whose
\* own connector is unavailable is treated as unavailable (nothing is
\* dispatched) even if the station is available.
C15_AvailabilityKeys ==
    (IsInteraction /\ last.avail # <<>>) =>
        /\ last.kind = "button" =>
              last.avail = <<available[buttons[last.idx].cp_id]>>
        /\ last.kind = "switch" =>
              last.avail = <<available[OwnConnector(switches[last.idx])]>>
        /\ last.kind = "number" =>
              (~available[OwnConnector(numbers[last.idx])] => last.calls = <<>>)

\* the value an instance holds now
CurrentValue(kind, i) ==
    IF kind = "switch" THEN switches[i]._state ELSE numbers[i].native_value

\* C16 (as claimed): when the awaited call of a switch or number raises,
\* the instance holds exactly the value it held when the interaction began
\* (the handlers of one instance being run one at a time).
C16_RaiseKeepsPreValue ==
    (last.outcome = "raised" /\ last.kind \in {"switch", "number"}
        /\ last.alone) =>
        CurrentValue(last.kind, last.idx) = last.pre[1]

\* the value an instance is to hold when its call has raised: the value it
\* held when the interaction began or, for a switch that was read while the
\* call was pending, the value the last such read stored
ValueAfterRaise(obs) ==
    IF obs.kind = "switch" /\ obs.reread # <<>> THEN obs.reread[1]
    ELSE obs.pre[1]

\* C16 (amended): the handler writes no value before the awaited call
\* returns: the step that issues the call and the step in which the call
\* raises leave every switch and number as they were.  A number or switch
\* whose call raised, no other handler of that instance having been in
\* flight meanwhile, holds its pre-interaction value, except that a switch
\* read while its call was pending holds what the last such read stored.
C16_HandlerWritesNothingBeforeReturn ==
    [][ (last'.outcome \in {"pending", "raised"}) =>
            /\ switches' = switches
            /\ numbers' = numbers
            /\ (last'.outcome = "raised" /\ last'.alone
                    /\ last'.op \in {"turn_on", "turn_off", "set_value"}) =>
                  (IF last'.kind = "switch"
                   THEN switches'[last'.idx]._state
                   ELSE numbers'[last'.idx].native_value)
                      = ValueAfterRaise(last') ]_vars

\* a turn-on of a switch that was on, read as off while the call was
\* pending: the call has raised and the switch is off, as the read left it
C16_Witness ==
    /\ last.outcome = "raised"
    /\ last.kind = "switch"
    /\ last.op = "turn_on"
    /\ last.alone
    /\ last.pre = <<TRUE>>
    /\ last.reread = <<FALSE>>
    /\ switches[last.idx]._state = FALSE

\* the command an accepted interaction is documented to send
DocumentedCommand(op, kind, i, v) ==
    IF op = "press"
    THEN [fn |-> "set_charger_state",
          service |-> buttons[i].entity_description.press_action,
          state |-> "default", conn_id |-> <<buttons[i].conn_id>>,
          value |-> <<>>]
    ELSE IF op = "turn_on"
    THEN [fn |-> "set_charger_state",
          service |-> switches[i].entity_description.on_action,
          state |-> "default", conn_id |-> <<switches[i].conn_id>>,
          value |-> <<>>]
    ELSE IF op = "turn_off"
    THEN [fn |-> "set_charger_state",
          service |-> switches[i].entity_description.off_action,
          state |-> IF switches[i].entity_description.off_action
                          = switches[i].entity_description.on_action
                    THEN "False" ELSE "default",
          conn_id |-> <<switches[i].conn_id>>, value |-> <<>>]
    ELSE [fn |-> IF numbers[i].entity_description.key = "maximum_current"
                 THEN "set_max_charge_rate_amps"
                 ELSE "set_max_charge_rate_watts",
          service |-> None, state |-> "default",
          conn_id |-> <<numbers[i].conn_id>>, value |-> v]

\* a call without the identity it is addressed to
CommandOf(call) ==
    [fn |-> call.fn, service |-> call.service, state |-> call.state,
     conn_id |-> call.conn_id, value |-> call.value]

\* C17 (as claimed): an accepted interaction issues exactly one call, with the
\* instance's own connector id and the documented command (press: the
\* press action; turn-on: the on action, no payload; turn-off: the off
\* action, with an explicit False exactly when it equals the on action;
\* set-value(v): the amps setter for maximum_current and the watts setter
\* for maximum_power, with v), and issues no further call when the first
\* one has returned or raised.
C17_OneDocumentedCall ==
    IsInteraction =>
        /\ last.outcome = "pending" =>
              /\ Len(last.calls) = 1
              /\ CommandOf(last.calls[1])
                    = DocumentedCommand(last.op, last.kind, last.idx, last.value)
        /\ (last.resp # <<>> \/ last.outcome = "raised") => last.calls = <<>>

\* the descriptions the entities of a list refer to
DescriptionsOf(entities) ==
    [j \in 1..Len(entities) |-> entities[j].entity_description]

\* C18: whatever the interleaving, a step changes no instance other than
\* the one it operates on, and changes no description.
C18_NoCrossInstanceEffect ==
    [][ /\ \A j \in 1..Len(switches) :
              switches'[j] # switches[j] =>
                  (last'.kind = "switch" /\ last'.idx = j)
        /\ \A j \in 1..Len(numbers) :
              numbers'[j] # numbers[j] =>
                  (last'.kind = "number" /\ last'.idx = j)
        /\ buttons' = buttons
        /\ DescriptionsOf(switches') = DescriptionsOf(switches)
        /\ DescriptionsOf(numbers') = DescriptionsOf(numbers) ]_vars

\* a turn-on of one switch has completed and changed it while the same
\* switch of another connector, itself waiting for its call, still holds
\* the value it had
C18_Witness ==
    /\ last.op = "turn_on"
    /\ last.resp = <<TRUE>>
    /\ last.pre = <<FALSE>>
    /\ switches[last.idx]._state = TRUE
    /\ \E p \in pending :
          /\ p.kind = "switch"
          /\ p.idx # last.idx
          /\ switches[p.idx].entity_description.key
                = switches[last.idx].entity_description.key
          /\ switches[p.idx]._state = FALSE

\* C19: with the buttons, switches and numbers of a station side by side,
\* the value of a number changes only in the step that restores it when it
\* is added, or in the step in which its own set-value call returns True; a
\* notification, a change of metric, availability or features, a read of a
\* switch, and every button or switch interaction (its start, its return,
\* its raise) leave it as it was.
C19_NumberValueFrame ==
    [][ \A j \in 1..Len(numbers) :
            numbers'[j].native_value # numbers[j].native_value =>
                /\ last'.kind = "number"
                /\ last'.idx = j
                /\ \/ last'.op = "added" /\ last'.value # <<>>
                   \/ last'.op = "set_value" /\ last'.resp = <<TRUE>> ]_vars

\* the status of a connector has changed and a turn-on of a switch of that
\* connector has returned True and changed the switch; the numbers of the
\* connector hold the values they had
C19_Witness ==
    /\ last.op = "turn_on"
    /\ last.resp = <<TRUE>>
    /\ last.pre = <<FALSE>>
    /\ switches[last.idx]._state = TRUE
    /\ metrics[switches[last.idx].connector] # None
    /\ \E i \in 1..Len(numbers) : numbers[i].conn_id = switches[last.idx].conn_id
    /\ \A i \in 1..Len(numbers) :
          numbers[i].conn_id = switches[last.idx].conn_id =>
              numbers[i].native_value = numbers[i].entity_description.initial_value

\* C20: a read that directly follows a read of the same switch, with no
\* change of metric and no interaction in between, returns what the first
\* returned and leaves _state as the first left it; a read calls nothing
\* on the central system.
C20_ReadIdempotent ==
    last.op = "is_on" =>
        /\ last.calls = <<>>
        /\ switches[last.idx]._state = last.value[1]
        /\ last.again => last.value = last.pre

\* a switch whose metric is in its condition, read twice: on both times
C20_Witness ==
    /\ last.op = "is_on"
    /\ last.again
    /\ MetricMatches(switches[last.idx])
    /\ last.pre = <<TRUE>>
    /\ last.value = <<TRUE>>
    /\ switches[last.idx]._state = TRUE

====
